---------------------------- MODULE Spec2Model ----------------------------
(***************************************************************************)
(* Construction of an Acquisition record (aind_data_schema/core/          *)
(* acquisition.py): the "before" validator of the axes field,             *)
(* from_direction_code, followed by field-by-field schema validation, and *)
(* the serialise / re-parse round trip of a constructed record.           *)
(*                                                                         *)
(* Encoding of Python values:                                              *)
(*   - a str supplied for axes is [kind |-> "str", chars |-> <<...>>],    *)
(*     a list is [kind |-> "list", items |-> <<...>>], so that            *)
(*     `type(v) is str` is a test on kind;                                 *)
(*   - an enum member is the string "Class.MEMBER", its value is the      *)
(*     string the class body assigns to it;                                *)
(*   - an Optional value is <<>> for None and <<v>> for v;                *)
(*   - a dict given for a model is a record with kind = "dict", a model   *)
(*     instance is a record with kind = the class name;                    *)
(*   - a raw input map is a function whose DOMAIN is the set of keys       *)
(*     supplied.                                                           *)
(***************************************************************************)
EXTENDS Integers, Sequences, FiniteSets, TLC

VARIABLES
    raw,          \* the mapping handed to Acquisition(...)
    pc,           \* "input": not yet constructed, "built": construction ended
    normalized,   \* <<v>>: what from_direction_code returned, <<>>: not run / raised
    outcome,      \* [kind, arg]: "none", "record", "ValidationError" or an exception class
    record,       \* <<r>>: the constructed Acquisition, <<>>: none
    errors,       \* the (loc, type) pairs a ValidationError carries
    original,     \* <<r>>: the record whose serialisation raw now holds
    round         \* number of serialisations done

vars == <<raw, pc, normalized, outcome, record, errors, original, round>>

-----------------------------------------------------------------------------
(* Bounds of the explored inputs *)

MaxCodeLen == 4      \* longest shorthand string supplied for axes
MaxAxes == 2         \* longest list supplied for axes
MaxProc == 2         \* longest process_name list
MaxOmitted == 2      \* most keys left out of the raw input map at once
MaxRounds == 1       \* serialise / re-parse rounds

SeqsUpTo(S, n) == UNION {[1..k -> S] : k \in 0..n}

-----------------------------------------------------------------------------
(* Enumerations *)

AxisNameValue ==
    ("AxisName.X" :> "X") @@ ("AxisName.Y" :> "Y") @@ ("AxisName.Z" :> "Z")

DirectionValue ==
    ("Direction.LR" :> "Left_to_right") @@
    ("Direction.RL" :> "Right_to_left") @@
    ("Direction.AP" :> "Anterior_to_posterior") @@
    ("Direction.PA" :> "Posterior_to_anterior") @@
    ("Direction.IS" :> "Inferior_to_superior") @@
    ("Direction.SI" :> "Superior_to_inferior") @@
    ("Direction.OTHER" :> "Other")

\* SizeUnit is imported; the one member the file uses is SizeUnit.UM.
SizeUnitValue == ("SizeUnit.UM" :> "micrometer")

\* Validation of a value against a str-valued Enum: a member, or a member's value.
EnumOk(values, x) ==
    \/ x \in DOMAIN values
    \/ \E m \in DOMAIN values : values[m] = x

EnumParse(values, x) ==
    IF x \in DOMAIN values THEN x
    ELSE CHOOSE m \in DOMAIN values : values[m] = x

\* The Literal[...] of ProcessingSteps.process_name.
ProcessNameLiteral ==
    { "ProcessName.IMAGE_IMPORTING",
      "ProcessName.IMAGE_BACKGROUND_SUBTRACTION",
      "ProcessName.IMAGE_CELL_SEGMENTATION",
      "ProcessName.IMAGE_DESTRIPING",
      "ProcessName.IMAGE_FLATFIELD_CORRECTION",
      "ProcessName.IMAGE_THRESHOLDING",
      "ProcessName.IMAGE_TILE_ALIGNMENT",
      "ProcessName.IMAGE_TILE_FUSING",
      "ProcessName.IMAGE_TILE_PROJECTION",
      "ProcessName.FILE_CONVERSION" }

-----------------------------------------------------------------------------
(* Axis *)

\* Axis(name=..., direction=..., dimension=...): unit takes its default.
Axis(name, direction, dimension) ==
    [kind |-> "Axis", name |-> name, dimension |-> dimension,
     direction |-> direction, unit |-> "SizeUnit.UM"]

\* Validation of one element of a List[Axis]: an Axis instance is taken as it
\* is, a dict is validated field by field.
AxisItemOk(it) ==
    \/ it.kind = "Axis"
    \/ /\ it.kind = "dict"
       /\ EnumOk(AxisNameValue, it.name)
       /\ EnumOk(DirectionValue, it.direction)
       /\ ("unit" \in DOMAIN it => EnumOk(SizeUnitValue, it.unit))

AxisItemValue(it) ==
    IF it.kind = "Axis" THEN it
    ELSE [kind |-> "Axis",
          name |-> EnumParse(AxisNameValue, it.name),
          dimension |-> it.dimension,
          direction |-> EnumParse(DirectionValue, it.direction),
          unit |-> IF "unit" \in DOMAIN it
                   THEN EnumParse(SizeUnitValue, it.unit)
                   ELSE "SizeUnit.UM"]

-----------------------------------------------------------------------------
(* from_direction_code *)

\* direction_lookup with the codes of the left-right pair exchanged.
direction_lookup_swapped ==
    ("L" :> "Direction.RL") @@ ("R" :> "Direction.LR") @@
    ("A" :> "Direction.AP") @@ ("P" :> "Direction.PA") @@
    ("I" :> "Direction.IS") @@ ("S" :> "Direction.SI")

direction_lookup ==
    ("L" :> "Direction.LR") @@ ("R" :> "Direction.RL") @@
    ("A" :> "Direction.AP") @@ ("P" :> "Direction.PA") @@
    ("I" :> "Direction.IS") @@ ("S" :> "Direction.SI")

name_lookup == <<"AxisName.X", "AxisName.Y", "AxisName.Z">>

Returned(v) == [exc |-> "none", arg |-> "", value |-> v]
Raised(e, a) == [exc |-> e, arg |-> a, value |-> <<>>]

\* The loop `for i, c in enumerate(v)` from 1-based position p on, axes being
\* the list built so far.  The keyword arguments of Axis(...) are evaluated
\* left to right: name_lookup[i] before direction_lookup[c].
RECURSIVE ExpandFrom(_, _, _)
ExpandFrom(chars, p, axes) ==
    IF p > Len(chars) THEN Returned(axes)
    ELSE IF p > Len(name_lookup)
         THEN Raised("IndexError", "list index out of range")
    ELSE IF chars[p] \notin DOMAIN direction_lookup
         THEN Raised("KeyError", chars[p])
    ELSE ExpandFrom(chars, p + 1,
             Append(axes, Axis(name_lookup[p], direction_lookup[chars[p]], p - 1)))

\* from_direction_code returning no axes for anything but a code string.
from_direction_code_str_only(v) ==
    IF v.kind = "str" THEN ExpandFrom(v.chars, 1, <<>>)
    ELSE Returned(<<>>)

\* from_direction_code assigning dimension by position to a list as well.
from_direction_code_renumber(v) ==
    IF v.kind = "str" THEN ExpandFrom(v.chars, 1, <<>>)
    ELSE Returned([i \in 1..Len(v.items) |-> [v.items[i] EXCEPT !.dimension = i - 1]])

from_direction_code(v) ==
    IF v.kind = "str" THEN ExpandFrom(v.chars, 1, <<>>)
    ELSE Returned(v.items)

-----------------------------------------------------------------------------
(* Acquisition *)

_DESCRIBED_BY_URL == "<base url>aind_data_schema/core/acquisition.py"

FieldNames ==
    { "describedBy", "schema_version", "protocol_id", "experimenter_full_name",
      "specimen_id", "subject_id", "instrument_id", "calibrations",
      "maintenance", "session_start_time", "session_end_time", "session_type",
      "tiles", "axes", "chamber_immersion", "sample_immersion",
      "active_objectives", "local_storage_directory",
      "external_storage_directory", "processing_steps", "notes" }

\* RequiredFields with instrument_id declared with a default.
RequiredFields_instrument_optional ==
    { "experimenter_full_name", "specimen_id",
      "session_start_time", "session_end_time", "tiles", "axes",
      "chamber_immersion" }

\* The fields declared with Field(...), that is without a default.
RequiredFields ==
    { "experimenter_full_name", "specimen_id", "instrument_id",
      "session_start_time", "session_end_time", "tiles", "axes",
      "chamber_immersion" }

\* The default of a field declared with one (None is <<>>, [] is <<>>).
FieldDefault(f) ==
    CASE f = "describedBy" -> _DESCRIBED_BY_URL
      [] f = "schema_version" -> "0.6.5"
      [] OTHER -> <<>>

Violation(f, t) == {[loc |-> f, type |-> t]}

\* schema_version declared as a plain str.
SchemaVersionErrors_any_str(v) == {}

\* schema_version: Literal["0.6.5"]
SchemaVersionErrors(v) ==
    IF v = "0.6.5" THEN {} ELSE Violation("schema_version", "literal_error")

\* tiles declared with min_length=1.
TilesErrors_min_length(v) ==
    IF Len(v) = 0 THEN {[loc |-> "tiles", type |-> "too_short"]} ELSE {}

\* tiles: List[AcquisitionTile] = Field(...): any list of tiles, no length bound.
TilesErrors(v) == {}

\* axes: List[Axis] = Field(...), applied to what from_direction_code returned.
AxesErrors(v) ==
    IF \A i \in 1..Len(v) : AxisItemOk(v[i]) THEN {} ELSE Violation("axes", "enum")

\* process_name validated on its first entry alone.
ProcessNameErrors_first_only(names) ==
    IF Len(names) = 0 \/ names[1] \in ProcessNameLiteral
    THEN {} ELSE {[loc |-> "processing_steps", type |-> "literal_error"]}

\* process_name: List[Literal[...]]: every entry against the literal set.
ProcessNameErrors(names) ==
    IF \A i \in 1..Len(names) : names[i] \in ProcessNameLiteral
    THEN {} ELSE Violation("processing_steps", "literal_error")

\* processing_steps: List[ProcessingSteps]
ProcessingStepsErrors(v) ==
    UNION {ProcessNameErrors(v[i].process_name) : i \in 1..Len(v)}

\* The violations of field f of the raw map m, axes being the value the
\* "before" validator returned for the axes field.
FieldErrors(m, f, axes) ==
    IF f \notin DOMAIN m
    THEN IF f \in RequiredFields THEN Violation(f, "missing") ELSE {}
    ELSE CASE f = "schema_version" -> SchemaVersionErrors(m[f])
           [] f = "tiles" -> TilesErrors(m[f])
           [] f = "axes" -> AxesErrors(axes)
           [] f = "processing_steps" -> ProcessingStepsErrors(m[f])
           [] OTHER -> {}

\* The validated value of field f.
FieldValue(m, f, axes) ==
    IF f \notin DOMAIN m THEN FieldDefault(f)
    ELSE IF f = "axes" THEN [i \in 1..Len(axes) |-> AxisItemValue(axes[i])]
    ELSE m[f]

\* The document of a record: the same keys, enum members as their values,
\* nested models as nested documents.
AxisDocument(a) ==
    [kind |-> "dict", name |-> AxisNameValue[a.name], dimension |-> a.dimension,
     direction |-> DirectionValue[a.direction], unit |-> SizeUnitValue[a.unit]]

model_dump(r) ==
    [f \in FieldNames |->
        IF f = "axes"
        THEN [kind |-> "list",
              items |-> [i \in 1..Len(r[f]) |-> AxisDocument(r[f][i])]]
        ELSE r[f]]

-----------------------------------------------------------------------------
(* Raw inputs *)

ProcessNameInputs ==
    ProcessNameLiteral \cup {"made_up_step", "ProcessName.SPIKE_SORTING"}

ValidStep ==
    [kind |-> "dict", channel_name |-> "488",
     process_name |-> <<"ProcessName.IMAGE_IMPORTING">>]

StepInputs ==
    {[kind |-> "dict", channel_name |-> "561", process_name |-> n] :
        n \in SeqsUpTo(ProcessNameInputs, MaxProc)}

ProcessingStepsInputs ==
    {<<>>} \cup {<<s>> : s \in StepInputs} \cup {<<ValidStep, s>> : s \in StepInputs}

CodeChars == {"L", "R", "A", "P", "I", "S", "Q"}

AxisDictInputs ==
    {[kind |-> "dict", name |-> n, dimension |-> d, direction |-> dir] :
        n \in {"X", "W"}, d \in {0, 7}, dir \in {"Other", "bogus"}}
    \cup
    {[kind |-> "dict", name |-> n, dimension |-> d, direction |-> dir,
      unit |-> "micrometer"] :
        n \in {"X", "W"}, d \in {0, 7}, dir \in {"Other", "bogus"}}

AxisItemInputs ==
    AxisDictInputs \cup {Axis("AxisName.Z", "Direction.SI", 2),
                         Axis("AxisName.Y", "Direction.OTHER", 5)}

AxesInputs ==
    {[kind |-> "str", chars |-> s] : s \in SeqsUpTo(CodeChars, MaxCodeLen)}
    \cup
    {[kind |-> "list", items |-> s] : s \in SeqsUpTo(AxisItemInputs, MaxAxes)}

FewAxesInputs ==
    { [kind |-> "str", chars |-> <<"R", "A", "S">>],
      [kind |-> "str", chars |-> <<>>],
      [kind |-> "str", chars |-> <<"R", "Q", "S">>],
      [kind |-> "list", items |-> <<>>],
      [kind |-> "list",
       items |-> <<[kind |-> "dict", name |-> "X", dimension |-> 0,
                    direction |-> "bogus"]>>] }

SchemaVersionInputs == {"0.6.5", "0.6.4", "0.6.50"}

Baseline ==
    [ describedBy |-> _DESCRIBED_BY_URL,
      schema_version |-> "0.6.5",
      protocol_id |-> <<"dx.doi.org/10.1/p">>,
      experimenter_full_name |-> <<"A Person">>,
      specimen_id |-> "12345_1",
      subject_id |-> <<"12345">>,
      instrument_id |-> "instrument_1",
      calibrations |-> <<"calibration_1">>,
      maintenance |-> <<"maintenance_1">>,
      session_start_time |-> "2023-01-01T10:00",
      session_end_time |-> "2023-01-01T11:00",
      session_type |-> <<"type_1">>,
      tiles |-> <<"tile_1">>,
      axes |-> [kind |-> "str", chars |-> <<"R", "A", "S">>],
      chamber_immersion |-> [kind |-> "dict", medium |-> "oil",
                             refractive_index |-> "1.515"],
      sample_immersion |-> <<[kind |-> "dict", medium |-> "water",
                              refractive_index |-> "1.33"]>>,
      active_objectives |-> <<<<"objective_1">>>>,
      local_storage_directory |-> <<"/local">>,
      external_storage_directory |-> <<"/external">>,
      processing_steps |-> <<ValidStep>>,
      notes |-> <<"notes">> ]

Without(m, keys) == [f \in (DOMAIN m) \ keys |-> m[f]]

OmittedInputs == {S \in SUBSET FieldNames : Cardinality(S) <= MaxOmitted}

\* Every value of axes, with and without violations in two other fields.
AxesSweep(m) ==
    \E a \in AxesInputs, sv \in {"0.6.5", "0.6.4"}, om \in {{}, {"instrument_id"}} :
        m = Without([Baseline EXCEPT !.axes = a, !.schema_version = sv], om)

\* Every omitted key, against the values of schema_version, tiles and axes.
FieldSweep(m) ==
    \E a \in FewAxesInputs, sv \in SchemaVersionInputs,
       t \in {<<>>, <<"tile_1">>}, om \in OmittedInputs :
        m = Without([Baseline EXCEPT !.axes = a, !.schema_version = sv,
                                     !.tiles = t], om)

\* Every processing_steps value.
StepsSweep(m) ==
    \E a \in FewAxesInputs, ps \in ProcessingStepsInputs :
        m = [Baseline EXCEPT !.axes = a, !.processing_steps = ps]

-----------------------------------------------------------------------------
(* Behaviour *)

NoOutcome == [kind |-> "none", arg |-> ""]

Init ==
    /\ AxesSweep(raw) \/ FieldSweep(raw) \/ StepsSweep(raw)
    /\ pc = "input"
    /\ normalized = <<>>
    /\ outcome = NoOutcome
    /\ record = <<>>
    /\ errors = {}
    /\ original = <<>>
    /\ round = 0

\* Acquisition(**raw): the "before" validator of axes runs when the key is
\* supplied; an exception it raises that is no ValueError or AssertionError
\* leaves construction as it is; otherwise the violations of all fields are
\* collected into one ValidationError, and with none the record is built.
Construct ==
    /\ pc = "input"
    /\ LET supplied == "axes" \in DOMAIN raw
           res == IF supplied THEN from_direction_code(raw["axes"]) ELSE Returned(<<>>)
           errs == UNION {FieldErrors(raw, f, res.value) : f \in FieldNames}
       IN  /\ normalized' = IF supplied /\ res.exc = "none" THEN <<res.value>> ELSE <<>>
           /\ IF res.exc # "none"
              THEN /\ outcome' = [kind |-> res.exc, arg |-> res.arg]
                   /\ record' = <<>>
                   /\ errors' = {}
              ELSE IF errs # {}
              THEN /\ outcome' = [kind |-> "ValidationError", arg |-> ""]
                   /\ record' = <<>>
                   /\ errors' = errs
              ELSE /\ outcome' = [kind |-> "record", arg |-> ""]
                   /\ record' = <<[f \in FieldNames |-> FieldValue(raw, f, res.value)]>>
                   /\ errors' = {}
    /\ pc' = "built"
    /\ UNCHANGED <<raw, original, round>>

\* The constructed record is serialised and the document becomes the raw
\* input of a new construction.
Serialize ==
    /\ pc = "built"
    /\ outcome.kind = "record"
    /\ round < MaxRounds
    /\ raw' = model_dump(record[1])
    /\ original' = record
    /\ round' = round + 1
    /\ pc' = "input"
    /\ normalized' = <<>>
    /\ outcome' = NoOutcome
    /\ record' = <<>>
    /\ errors' = {}

Next == Construct \/ Serialize

Spec == Init /\ [][Next]_vars

-----------------------------------------------------------------------------
(* Vocabulary of the properties, written out from the record format's       *)
(* description rather than taken from the definitions above.                *)

ShorthandCodes == {"L", "R", "A", "P", "I", "S"}

ShorthandTable ==
    ("L" :> "Direction.LR") @@ ("R" :> "Direction.RL") @@
    ("A" :> "Direction.AP") @@ ("P" :> "Direction.PA") @@
    ("I" :> "Direction.IS") @@ ("S" :> "Direction.SI")

ShorthandNames == <<"AxisName.X", "AxisName.Y", "AxisName.Z">>

TenProcessNames ==
    { "ProcessName.IMAGE_IMPORTING", "ProcessName.IMAGE_BACKGROUND_SUBTRACTION",
      "ProcessName.IMAGE_CELL_SEGMENTATION", "ProcessName.IMAGE_DESTRIPING",
      "ProcessName.IMAGE_FLATFIELD_CORRECTION", "ProcessName.IMAGE_THRESHOLDING",
      "ProcessName.IMAGE_TILE_ALIGNMENT", "ProcessName.IMAGE_TILE_FUSING",
      "ProcessName.IMAGE_TILE_PROJECTION", "ProcessName.FILE_CONVERSION" }

RequiredByContract ==
    { "experimenter_full_name", "specimen_id", "instrument_id",
      "session_start_time", "session_end_time", "tiles", "axes",
      "chamber_immersion" }

Built == pc = "built"
Succeeded == Built /\ outcome.kind = "record"
Supplied(f) == f \in DOMAIN raw

IsShorthand(v) == v.kind = "str"
ValidShorthand(v) ==
    /\ v.kind = "str"
    /\ Len(v.chars) <= 3
    /\ \A i \in 1..Len(v.chars) : v.chars[i] \in ShorthandCodes

ValidAxisEntry(it) ==
    \/ it.kind = "Axis"
    \/ /\ it.name \in {"X", "Y", "Z"}
       /\ it.direction \in
            {"Left_to_right", "Right_to_left", "Anterior_to_posterior",
             "Posterior_to_anterior", "Inferior_to_superior",
             "Superior_to_inferior", "Other"}
       /\ ("unit" \in DOMAIN it => it.unit = "micrometer")

ValidAxisList(v) ==
    /\ v.kind = "list"
    /\ \A i \in 1..Len(v.items) : ValidAxisEntry(v.items[i])

BadProcessName(steps) ==
    \E i \in 1..Len(steps) : \E j \in 1..Len(steps[i].process_name) :
        steps[i].process_name[j] \notin TenProcessNames

\* The value supplied for key f meets the constraints of field f.
SuppliedValid(f) ==
    CASE f = "schema_version" -> raw[f] = "0.6.5"
      [] f = "axes" -> ValidShorthand(raw[f]) \/ ValidAxisList(raw[f])
      [] f = "processing_steps" -> ~BadProcessName(raw[f])
      [] OTHER -> TRUE

AllSuppliedValid == \A f \in DOMAIN raw : SuppliedValid(f)
OthersValid(g) ==
    /\ RequiredByContract \ {g} \subseteq DOMAIN raw
    /\ \A f \in (DOMAIN raw) \ {g} : SuppliedValid(f)

Offending ==
    (RequiredByContract \ DOMAIN raw) \cup {f \in DOMAIN raw : ~SuppliedValid(f)}

Reported(f) == \E e \in errors : e.loc = f

EmptyAxes ==
    /\ Supplied("axes")
    /\ \/ raw["axes"].kind = "str" /\ raw["axes"].chars = <<>>
       \/ raw["axes"].kind = "list" /\ raw["axes"].items = <<>>
EmptyTiles == Supplied("tiles") /\ raw["tiles"] = <<>>

-----------------------------------------------------------------------------
(* Properties *)

\* C1: a shorthand string over L,R,A,P,I,S of length at most 3, with all other
\* fields valid, constructs a record whose axes list has one entry per
\* character, entry i having dimension i, the i-th of X,Y,Z as name, the
\* table's direction for the character and unit micrometers.
C1_ShorthandExpansion ==
    (Built /\ Supplied("axes") /\ ValidShorthand(raw["axes"]) /\ OthersValid("axes"))
    => /\ outcome.kind = "record"
       /\ Len(record[1]["axes"]) = Len(raw["axes"].chars)
       /\ \A p \in 1..Len(raw["axes"].chars) :
            record[1]["axes"][p] =
                [kind |-> "Axis", name |-> ShorthandNames[p], dimension |-> p - 1,
                 direction |-> ShorthandTable[raw["axes"].chars[p]],
                 unit |-> "SizeUnit.UM"]

C1_Witness_RAS ==
    /\ Succeeded
    /\ Supplied("axes")
    /\ raw["axes"] = [kind |-> "str", chars |-> <<"R", "A", "S">>]
    /\ record[1]["axes"] =
         << [kind |-> "Axis", name |-> "AxisName.X", dimension |-> 0,
             direction |-> "Direction.RL", unit |-> "SizeUnit.UM"],
            [kind |-> "Axis", name |-> "AxisName.Y", dimension |-> 1,
             direction |-> "Direction.AP", unit |-> "SizeUnit.UM"],
            [kind |-> "Axis", name |-> "AxisName.Z", dimension |-> 2,
             direction |-> "Direction.SI", unit |-> "SizeUnit.UM"] >>

\* C2: a shorthand string holding a character outside L,R,A,P,I,S makes
\* construction fail with a ValidationError that reports the axes field, and
\* no record is produced.
C2_BadCharacterIsValidationError ==
    (Built /\ Supplied("axes") /\ IsShorthand(raw["axes"])
       /\ \E p \in 1..Len(raw["axes"].chars) : raw["axes"].chars[p] \notin ShorthandCodes)
    => /\ outcome.kind = "ValidationError"
       /\ Reported("axes")
       /\ record = <<>>

\* C3: construction ends either in a record or in a ValidationError; no other
\* kind of failure escapes, a shorthand string of 4 or more characters included.
C3_SingleFailureKind ==
    Built => outcome.kind \in {"record", "ValidationError"}

\* C4: when several fields are violated at once, the failure is one
\* ValidationError that reports every offending field, an invalid axes value
\* included.
C4_AllViolationsReported ==
    (Built /\ Cardinality(Offending) >= 2)
    => /\ outcome.kind = "ValidationError"
       /\ \A f \in Offending : Reported(f)

C6_RequiredFields ==
    (Built /\ AllSuppliedValid)
    => /\ \A f \in RequiredByContract \ DOMAIN raw :
            /\ outcome.kind = "ValidationError"
            /\ [loc |-> f, type |-> "missing"] \in errors
       /\ RequiredByContract \subseteq DOMAIN raw => outcome.kind = "record"

C6_Witness_MissingInstrument ==
    /\ Built
    /\ AllSuppliedValid
    /\ DOMAIN raw = FieldNames \ {"instrument_id"}
    /\ outcome.kind = "ValidationError"
    /\ errors = {[loc |-> "instrument_id", type |-> "missing"]}

\* C7: a schema_version supplied as anything but "0.6.5" fails construction
\* (a ValidationError reporting schema_version), and every constructed record
\* has schema_version "0.6.5".
C7_SchemaVersionLiteral ==
    /\ (Built /\ Supplied("schema_version") /\ raw["schema_version"] # "0.6.5")
         => /\ outcome.kind # "record"
            /\ outcome.kind = "ValidationError" => Reported("schema_version")
    /\ Succeeded => record[1]["schema_version"] = "0.6.5"

C7_Witness_WrongVersion ==
    /\ Built
    /\ Supplied("schema_version")
    /\ raw["schema_version"] = "0.6.50"
    /\ OthersValid("schema_version")
    /\ outcome.kind = "ValidationError"
    /\ errors = {[loc |-> "schema_version", type |-> "literal_error"]}

\* C8: a process_name list with an entry outside the ten identifiers, at any
\* position, fails validation (a ValidationError reports processing_steps),
\* and a constructed record holds the supplied entries unchanged.
C8_ProcessNameEntries ==
    /\ (Built /\ Supplied("processing_steps") /\ BadProcessName(raw["processing_steps"]))
         => /\ outcome.kind # "record"
            /\ outcome.kind = "ValidationError" => Reported("processing_steps")
    /\ (Succeeded /\ Supplied("processing_steps"))
         => record[1]["processing_steps"] = raw["processing_steps"]

C8_Witness_BadSecondEntry ==
    /\ Built
    /\ Supplied("processing_steps")
    /\ Len(raw["processing_steps"]) = 2
    /\ raw["processing_steps"][2].process_name =
         <<"ProcessName.IMAGE_IMPORTING", "made_up_step">>
    /\ outcome.kind = "ValidationError"
    /\ Reported("processing_steps")

C10_ListPassThrough ==
    (Built /\ Supplied("axes") /\ ~IsShorthand(raw["axes"]))
    => normalized = <<raw["axes"].items>>

C10_Witness_OtherPreserved ==
    /\ Built
    /\ round = 0
    /\ Supplied("axes")
    /\ ~IsShorthand(raw["axes"])
    /\ Len(raw["axes"].items) = 2
    /\ raw["axes"].items[2] =
         [kind |-> "dict", name |-> "X", dimension |-> 7, direction |-> "Other"]
    /\ normalized = <<raw["axes"].items>>

=============================================================================
